---- MODULE Spec2Model ----
(***************************************************************************)
(* Model of the recipe catalog program: the loader (queshi.load_dishes,    *)
(* queshi._find_resource), the tag search (queshi.search_by_tag) and the   *)
(* tag vocabulary / suggestion code of the window (gui_queshi.QueshiWindow)*)
(*                                                                         *)
(* Text is a sequence of one-character strings.  Python values are records *)
(* [t, v]: t is the Python type, v the text the value carries.             *)
(***************************************************************************)
EXTENDS Integers, Sequences, FiniteSets, TLC

VARIABLES
    frozen,       \* sys.frozen
    meipass,      \* sys._MEIPASS ("" when not set)
    exeDir,       \* os.path.dirname(sys.executable)
    scriptDir,    \* os.path.dirname(__file__): a directory, "" or "undefined"
    cwd,          \* os.getcwd()
    fs,           \* directory -> content of its dishes.txt (NoFile when none)
    pc,           \* "init": window under construction; "idle": event loop
    checkpoint,   \* QueshiWindow.checkpoint: None or a DataFrame
    tagList,      \* QueshiWindow._tag_list
    entry,        \* text of QueshiWindow.entry
    popup,        \* QueshiWindow._tag_popup: its items, whether it is shown
    modelDf,      \* PandasModel._df of QueshiWindow.model
    lastLoad,     \* outcome of the last load (load_dishes or on_load)
    lastSearch    \* outcome of the last search_by_tag call

vars == <<frozen, meipass, exeDir, scriptDir, cwd, fs, pc, checkpoint, tagList,
          entry, popup, modelDf, lastLoad, lastSearch>>

envVars == <<frozen, meipass, exeDir, scriptDir, cwd, fs>>

-----------------------------------------------------------------------------
(* Bounds of the model. *)

MaxRecords == 2
MaxStrLen == 2
MaxListLen == 1
MaxQueryLen == 2

-----------------------------------------------------------------------------
(* Text. *)

\* Code point of a character: the order sorted() uses on str.
Ord(c) ==
    CASE c = " " -> 32
      [] c = "," -> 44
      [] c = "1" -> 49
      [] c = "A" -> 65
      [] c = "B" -> 66
      [] c = "a" -> 97
      [] c = "b" -> 98
      [] c = "c" -> 99
      [] c = "d" -> 100
      [] c = "n" -> 110

\* A character the pattern \W does not match.
IsWordChar(c) == c \in {"1", "A", "B", "a", "b", "c", "d", "n"}

\* A character str.strip() removes.
IsSpace(c) == c = " "

\* str.lower() on one character.
LowerChar(c) == CASE c = "A" -> "a" [] c = "B" -> "b" [] OTHER -> c

\* str.lower()
Lower(s) == [i \in 1..Len(s) |-> LowerChar(s[i])]

RECURSIVE LStrip(_)
LStrip(s) == IF s # <<>> /\ IsSpace(Head(s)) THEN LStrip(Tail(s)) ELSE s

RECURSIVE RStrip(_)
RStrip(s) ==
    IF s # <<>> /\ IsSpace(s[Len(s)]) THEN RStrip(SubSeq(s, 1, Len(s) - 1)) ELSE s

\* str.strip()
Strip(s) == RStrip(LStrip(s))

\* sub in s, for two str
Contains(sub, s) ==
    \E i \in 0..(Len(s) - Len(sub)) : SubSeq(s, i + 1, i + Len(sub)) = sub

\* s < t in the order of str: code points, a proper prefix first.
RECURSIVE StrLess(_, _)
StrLess(s, t) ==
    IF t = <<>> THEN FALSE
    ELSE IF s = <<>> THEN TRUE
    ELSE IF Ord(Head(s)) # Ord(Head(t)) THEN Ord(Head(s)) < Ord(Head(t))
    ELSE StrLess(Tail(s), Tail(t))

\* sorted(S) for a set of str
RECURSIVE Sorted(_)
Sorted(S) ==
    IF S = {} THEN <<>>
    ELSE LET m == CHOOSE x \in S : \A y \in S \ {x} : StrLess(x, y)
         IN <<m>> \o Sorted(S \ {m})

\* Index of the first word character of s at or after i (Len(s) + 1 when none).
RECURSIVE SkipNonWord(_, _)
SkipNonWord(s, i) ==
    IF i > Len(s) \/ IsWordChar(s[i]) THEN i ELSE SkipNonWord(s, i + 1)

RECURSIVE SplitFrom(_, _, _)
SplitFrom(s, i, cur) ==
    IF i > Len(s) THEN <<cur>>
    ELSE IF IsWordChar(s[i]) THEN SplitFrom(s, i + 1, Append(cur, s[i]))
    ELSE <<cur>> \o SplitFrom(s, SkipNonWord(s, i), <<>>)

\* re.split(r'\W+', s): the parts between the runs of non-word characters,
\* with an empty part before a leading run and after a trailing one.
ReSplit(s) == SplitFrom(s, 1, <<>>)

-----------------------------------------------------------------------------
(* Python values. *)

PyNone == [t |-> "NoneType", v |-> <<>>]
NaN == [t |-> "float", v |-> <<"n", "a", "n">>]
PyStr(s) == [t |-> "str", v |-> s]
PyInt(digits) == [t |-> "int", v |-> digits]
PyList(elems) == [t |-> "list", v |-> elems]

\* The 'tags' entry of a dish that has no 'tags' key.
Absent == [t |-> "absent", v |-> <<>>]

\* str(x) of a list element or of a cell
Str(x) == IF x.t = "NoneType" THEN <<"N", "o", "n", "e">> ELSE x.v

\* Content of a dishes.txt: text exec() rejects, text that assigns no 'dishes',
\* text that assigns the list of dicts 'dishes', or a file open() cannot read.
NoFile == [kind |-> "nofile", dishes |-> <<>>]
Malformed == [kind |-> "malformed", dishes |-> <<>>]
NoDishes == [kind |-> "nodishes", dishes |-> <<>>]
Unreadable == [kind |-> "unreadable", dishes |-> <<>>]
DishesFile(dishes) == [kind |-> "dishes", dishes |-> dishes]

\* A dish: its name is passed through, its 'tags' entry is a cell or Absent.
Dish(cell) == [tags |-> cell]

-----------------------------------------------------------------------------
(* pandas. *)

\* self.checkpoint = None
NoneDf == [isNone |-> TRUE, columns |-> {}, rows |-> <<>>]

\* pd.DataFrame(dishes): a row per dish in order, index 0..n-1; a column per
\* key some dish has; NaN where a dish lacks the key of a column.
PdDataFrame(dishes) ==
    LET hasTags == \E i \in 1..Len(dishes) : dishes[i].tags # Absent
    IN [isNone |-> FALSE,
        columns |-> IF dishes = <<>> THEN {}
                    ELSE {"name"} \cup (IF hasTags THEN {"tags"} ELSE {}),
        rows |-> [i \in 1..Len(dishes) |->
                    [idx |-> i - 1,
                     tags |-> IF dishes[i].tags = Absent /\ hasTags
                              THEN NaN ELSE dishes[i].tags]]]

\* DataFrame.empty
DfEmpty(df) == df.rows = <<>> \/ df.columns = {}

-----------------------------------------------------------------------------
(* queshi.py *)

\* Candidates with the working directory tried first.
CandidatesCwdFirst ==
    <<cwd>>
    \o (IF frozen
        THEN (IF meipass # "" THEN <<meipass>> ELSE <<>>) \o <<exeDir>>
        ELSE <<>>)
    \o (IF scriptDir \notin {"", "undefined"} THEN <<scriptDir>> ELSE <<>>)

\* The directories _find_resource tries, in its order.  sys._MEIPASS and the
\* executable's directory only when frozen; the script directory when
\* __file__ gives a non-empty one.
Candidates ==
    (IF frozen
     THEN (IF meipass # "" THEN <<meipass>> ELSE <<>>) \o <<exeDir>>
     ELSE <<>>)
    \o (IF scriptDir \notin {"", "undefined"} THEN <<scriptDir>> ELSE <<>>)
    \o <<cwd>>

\* os.path.exists(os.path.join(d, 'dishes.txt')); a relative path ("") is
\* resolved against the working directory.
Exists(d) == fs[IF d = "" THEN cwd ELSE d] # NoFile

\* open(path).read()
ReadFile(d) == fs[IF d = "" THEN cwd ELSE d]

RECURSIVE FirstExisting(_)
FirstExisting(ds) ==
    IF ds = <<>> THEN "None"
    ELSE IF Head(ds) # "" /\ Exists(Head(ds)) THEN Head(ds)
    ELSE FirstExisting(Tail(ds))

\* _find_resource('dishes.txt'): the directory of the path it returns, or "None".
FindResource == FirstExisting(Candidates)

\* What a call returns or raises.
Return(path, df) == [kind |-> "return", path |-> path, df |-> df, error |-> ""]
Raise(path, error) == [kind |-> "raise", path |-> path, df |-> NoneDf, error |-> error]

\* The part of load_dishes after the path is known: read, exec, DataFrame.
\* exec raises what the content raises; a content without 'dishes' gives [].
ExecAndBuild(path) ==
    LET content == ReadFile(path)
    IN IF content.kind = "unreadable" THEN Raise(path, "OSError")
       ELSE IF content.kind = "malformed" THEN Raise(path, "SyntaxError")
       ELSE Return(path, PdDataFrame(content.dishes))

\* load_dishes without its return of an empty DataFrame: it opens the
\* fallback path whether or not it exists.
LoadDishesNoFallback ==
    LET path == FindResource
    IN IF path = "None" THEN Raise("None", "FileNotFoundError")
       ELSE ExecAndBuild(path)

\* load_dishes()
LoadDishes ==
    LET path == FindResource
    IN IF path = "None"
       THEN IF scriptDir = "undefined" THEN Return("None", PdDataFrame(<<>>))
            ELSE IF ~Exists(scriptDir) THEN Return("None", PdDataFrame(<<>>))
            ELSE ExecAndBuild(scriptDir)
       ELSE ExecAndBuild(path)

\* has_tag(tags): tag in tags; False when that raises (a value that is no
\* container: None, a float).
HasTag(tag, tags) ==
    CASE tags.t = "str" -> Contains(tag, tags.v)
      [] tags.t = "list" -> \E i \in 1..Len(tags.v) : tags.v[i] = PyStr(tag)
      [] OTHER -> FALSE

RECURSIVE SelectRows(_, _)
SelectRows(tag, rows) ==
    IF rows = <<>> THEN <<>>
    ELSE (IF HasTag(tag, Head(rows).tags) THEN <<Head(rows)>> ELSE <<>>)
         \o SelectRows(tag, Tail(rows))

\* search_by_tag(tag, checkpoint)
SearchByTag(tag, cp) ==
    LET loaded == IF cp.isNone THEN LoadDishes ELSE Return("", cp)
    IN IF loaded.kind = "raise" THEN Raise("", loaded.error)
       ELSE IF "tags" \notin loaded.df.columns THEN Raise("", "KeyError")
       ELSE Return("", [loaded.df EXCEPT !.rows = SelectRows(tag, loaded.df.rows)])

-----------------------------------------------------------------------------
(* gui_queshi.py: the tag vocabulary and the suggestions. *)

\* The stripped, non-empty parts among parts, added to acc.
RECURSIVE AddParts(_, _)
AddParts(parts, acc) ==
    IF parts = <<>> THEN acc
    ELSE LET p == Strip(Head(parts))
         IN AddParts(Tail(parts), IF p # <<>> THEN acc \cup {p} ELSE acc)

\* str(t) of every element of a sequence, added to acc.
RECURSIVE AddElems(_, _)
AddElems(elems, acc) ==
    IF elems = <<>> THEN acc
    ELSE AddElems(Tail(elems), acc \cup {Str(Head(elems))})

\* One turn of the loop over checkpoint['tags']: None is skipped, a str is
\* split on \W+, anything else is iterated, and str(item) is added when it
\* cannot be iterated.
AddItem(item, acc) ==
    CASE item.t = "NoneType" -> acc
      [] item.t = "str" -> AddParts(ReSplit(item.v), acc)
      [] item.t = "list" -> AddElems(item.v, acc)
      [] OTHER -> acc \cup {Str(item)}

RECURSIVE CollectTags(_, _)
CollectTags(rows, acc) ==
    IF rows = <<>> THEN acc
    ELSE CollectTags(Tail(rows), AddItem(Head(rows).tags, acc))

\* The list _update_tag_completer stores in _tag_list for a checkpoint.
TagListOf(cp) ==
    IF cp.isNone \/ DfEmpty(cp) THEN <<>>
    ELSE IF "tags" \notin cp.columns THEN Sorted({})
    ELSE Sorted(CollectTags(cp.rows, {}))

\* Matches without the lower(): a case-sensitive comparison.
MatchesCaseSensitive(prefix, t) == prefix = <<>> \/ Contains(prefix, t)

\* Whether _show_tag_popup adds entry t for the stripped prefix.
Matches(prefix, t) == prefix = <<>> \/ Contains(Lower(prefix), Lower(t))

RECURSIVE FilterTags(_, _)
FilterTags(prefix, tags) ==
    IF tags = <<>> THEN <<>>
    ELSE (IF Matches(prefix, Head(tags)) THEN <<Head(tags)>> ELSE <<>>)
         \o FilterTags(prefix, Tail(tags))

\* completer.setMaxVisibleItems(10)
MaxVisibleItems == 10

\* The popup after _show_tag_popup(prefix): cleared, filled with the entries
\* of _tag_list that match, shown unless it has no item.  filled and query
\* record that it was filled, and the prefix it was filled for.
ShowTagPopup(prefix, tags) ==
    LET items == FilterTags(Strip(prefix), tags)
    IN [items |-> items, visible |-> items # <<>>, filled |-> TRUE,
        query |-> prefix]

\* The popup after _hide_tag_popup(): its items stay.
HideTagPopup(p) == [p EXCEPT !.visible = FALSE]

-----------------------------------------------------------------------------
(* The window: construction and event handlers. *)

LoadOutcome(fn, out) ==
    [fn |-> fn, kind |-> out.kind, path |-> out.path, df |-> out.df,
     error |-> out.error]

SearchOutcome(tag, out) ==
    [kind |-> out.kind, tag |-> tag, df |-> out.df, error |-> out.error]

\* QueshiWindow.__init__, from self.load_data() on: load_data keeps the
\* checkpoint None when load_dishes raises; _update_tag_completer runs in
\* load_data and once more after it.
LoadData ==
    /\ pc = "init"
    /\ LET out == LoadDishes
           cp == IF out.kind = "return" THEN out.df ELSE checkpoint
       IN /\ checkpoint' = cp
          /\ tagList' = TagListOf(cp)
          /\ lastLoad' = LoadOutcome("load_dishes", out)
    /\ pc' = "idle"
    /\ UNCHANGED <<envVars, entry, popup, modelDf, lastSearch>>

\* on_load adding the rows of the file to the rows of the current catalog.
OnLoadAppends(cancelled, content) ==
    /\ pc = "idle"
    /\ IF cancelled \/ content.kind \in {"unreadable", "malformed", "nodishes"}
       THEN /\ lastLoad' = LoadOutcome("on_load", Raise("picked", "failed"))
            /\ UNCHANGED checkpoint
       ELSE /\ checkpoint' =
                 [PdDataFrame(content.dishes) EXCEPT
                     !.rows = checkpoint.rows \o PdDataFrame(content.dishes).rows]
            /\ lastLoad' = LoadOutcome("on_load", Return("picked", checkpoint'))
    /\ tagList' = TagListOf(checkpoint')
    /\ UNCHANGED <<envVars, pc, entry, popup, modelDf, lastSearch>>

\* on_load without its call of _update_tag_completer.
OnLoadNoRefresh(cancelled, content) ==
    /\ pc = "idle"
    /\ IF cancelled \/ content.kind \in {"unreadable", "malformed", "nodishes"}
       THEN /\ lastLoad' = LoadOutcome("on_load", Raise("picked", "failed"))
            /\ UNCHANGED checkpoint
       ELSE /\ checkpoint' = PdDataFrame(content.dishes)
            /\ lastLoad' = LoadOutcome("on_load", Return("picked", checkpoint'))
    /\ UNCHANGED <<envVars, pc, tagList, entry, popup, modelDf, lastSearch>>

\* on_load: the file dialog is cancelled, or names a file with this content.
\* exec raising, or ns['dishes'] raising KeyError, ends in the error box.
OnLoad(cancelled, content) ==
    /\ pc = "idle"
    /\ IF cancelled
       THEN /\ lastLoad' = LoadOutcome("on_load", [Raise("picked", "") EXCEPT !.kind = "cancelled"])
            /\ UNCHANGED <<checkpoint, tagList>>
       ELSE IF content.kind = "unreadable"
       THEN /\ lastLoad' = LoadOutcome("on_load", Raise("picked", "OSError"))
            /\ UNCHANGED <<checkpoint, tagList>>
       ELSE IF content.kind = "malformed"
       THEN /\ lastLoad' = LoadOutcome("on_load", Raise("picked", "SyntaxError"))
            /\ UNCHANGED <<checkpoint, tagList>>
       ELSE IF content.kind = "nodishes"
       THEN /\ lastLoad' = LoadOutcome("on_load", Raise("picked", "KeyError"))
            /\ UNCHANGED <<checkpoint, tagList>>
       ELSE LET cp == PdDataFrame(content.dishes)
            IN /\ checkpoint' = cp
               /\ tagList' = TagListOf(cp)
               /\ lastLoad' = LoadOutcome("on_load", Return("picked", cp))
    /\ UNCHANGED <<envVars, pc, entry, popup, modelDf, lastSearch>>

\* _on_entry_text_edited(text): with a non-empty completer model the Qt
\* completer shows (completes) and the fallback popup is hidden; when it
\* raises, or the model is empty, the fallback popup is filled.
OnEntryTextEdited(text, completes) ==
    /\ pc = "idle"
    /\ entry' = text
    /\ popup' = IF Len(tagList) > 0 /\ completes
                THEN HideTagPopup(popup)
                ELSE ShowTagPopup(text, tagList)
    /\ UNCHANGED <<envVars, pc, checkpoint, tagList, modelDf, lastLoad, lastSearch>>

\* eventFilter, FocusOut on the entry
FocusOut ==
    /\ pc = "idle"
    /\ popup' = HideTagPopup(popup)
    /\ UNCHANGED <<envVars, pc, checkpoint, tagList, entry, modelDf, lastLoad, lastSearch>>

\* The search both on_search and menu_search run on the text they read.
DoSearch(text) ==
    LET tag == Strip(text)
    IN IF tag = <<>>
       THEN /\ lastSearch' = SearchOutcome(tag, [Raise("", "") EXCEPT !.kind = "notag"])
            /\ UNCHANGED modelDf
       ELSE LET out == SearchByTag(tag, checkpoint)
            IN /\ lastSearch' = SearchOutcome(tag, out)
               /\ modelDf' = IF out.kind = "return" THEN out.df ELSE modelDf

\* on_search keeping the rows it found as the current catalog.
OnSearchKeepsResult ==
    /\ pc = "idle"
    /\ DoSearch(entry)
    /\ checkpoint' = IF Strip(entry) # <<>> /\ lastSearch'.kind = "return"
                     THEN lastSearch'.df ELSE checkpoint
    /\ UNCHANGED <<envVars, pc, tagList, entry, popup, lastLoad>>

\* on_search
OnSearch ==
    /\ pc = "idle"
    /\ DoSearch(entry)
    /\ UNCHANGED <<envVars, pc, checkpoint, tagList, entry, popup, lastLoad>>

\* _on_popup_item_clicked(item), item the i-th of the shown popup
OnPopupItemClicked(i) ==
    /\ pc = "idle"
    /\ popup.visible
    /\ i \in 1..Len(popup.items)
    /\ entry' = popup.items[i]
    /\ popup' = HideTagPopup(popup)
    /\ DoSearch(popup.items[i])
    /\ UNCHANGED <<envVars, pc, checkpoint, tagList, lastLoad>>

\* menu_search: the input dialog gives text, accepted (ok) or not
MenuSearch(text, ok) ==
    /\ pc = "idle"
    /\ IF ok THEN DoSearch(text) ELSE UNCHANGED <<modelDf, lastSearch>>
    /\ UNCHANGED <<envVars, pc, checkpoint, tagList, entry, popup, lastLoad>>

-----------------------------------------------------------------------------
(* Inputs. *)

SeqsUpTo(S, n) == UNION {[1..k -> S] : k \in 0..n}

\* Directories that may hold a dishes.txt.
Dirs == {"M", "A", "B"}

\* Tag strings: a letter and the delimiter.
StrAlphabet == {"a", ","}
TagStrings == SeqsUpTo(StrAlphabet, MaxStrLen)

\* Elements of a tag list: a tag, a padded tag, an empty one, a number.
ElemPool == {PyStr(<<"a">>), PyStr(<<" ", "a">>), PyStr(<<>>), PyInt(<<"1">>)}
TagLists == SeqsUpTo(ElemPool, MaxListLen)

Cells ==
    {Absent, PyNone} \cup {PyStr(s) : s \in TagStrings}
                     \cup {PyList(l) : l \in TagLists}

DishLists == SeqsUpTo({Dish(c) : c \in Cells}, MaxRecords)

\* tags "辣,下饭" and ["下饭", "家常"], written with the letters
\* 下 = a, 家 = b, 常 = c, 辣 = d, 饭 = n (the order of the code points is kept).
ExampleDishes ==
    <<Dish(PyStr(<<"d", ",", "a", "n">>)),
      Dish(PyList(<<PyStr(<<"a", "n">>), PyStr(<<"b", "c">>)>>))>>

\* A padded, delimiter-joined string beside a dish without tags.
PaddedDishes ==
    <<Dish(PyStr(<<" ", "a", " ", ",", " ", "a", "b", " ">>)), Dish(Absent)>>

\* Texts a user submits as a tag.
SearchTexts ==
    {<<>>, <<"a">>, <<"a", "a">>, <<" ", "a">>, <<"1">>, <<"a", "n">>,
     <<"n", "a", "n">>, <<"b">>}

\* Vocabularies for the suggestions: every subset of TokenPool, and one with
\* more entries than the completer shows at once.
TokenPool == {<<"a">>, <<"A">>, <<"b", "a">>, <<"a", " ">>, <<"B">>}
BigTokens ==
    {<<"a">>, <<"b">>, <<"c">>, <<"d">>, <<"n">>, <<"A">>, <<"B">>, <<"1">>,
     <<"a", "a">>, <<"a", "b">>, <<"b", "a">>}
QueryAlphabet == {"a", "A", " "}
Queries == SeqsUpTo(QueryAlphabet, MaxQueryLen)

\* A catalog of one dish whose tags are the list of the tokens of T.
RECURSIVE ListOf(_)
ListOf(T) ==
    IF T = {} THEN <<>>
    ELSE LET x == CHOOSE y \in T : TRUE IN <<PyStr(x)>> \o ListOf(T \ {x})

TokenDishes(T) == <<Dish(PyList(ListOf(T)))>>

\* Contents of the files of the loader scenarios.
LoadContents ==
    {Malformed, NoDishes, DishesFile(<<>>), DishesFile(<<Dish(PyStr(<<"a">>))>>)}

-----------------------------------------------------------------------------
(* Specifications. *)

\* The window before load_data: QueshiWindow.__init__ up to line 224.
InitWindow ==
    /\ pc = "init"
    /\ checkpoint = NoneDf
    /\ tagList = <<>>
    /\ entry = <<>>
    /\ popup = [items |-> <<>>, visible |-> FALSE, filled |-> FALSE, query |-> <<>>]
    /\ modelDf = PdDataFrame(<<>>)
    /\ lastLoad = LoadOutcome("", [Raise("None", "") EXCEPT !.kind = "none"])
    /\ lastSearch = SearchOutcome(<<>>, [Raise("", "") EXCEPT !.kind = "none"])

\* Run from source in directory A, whose dishes.txt has this content.
SimpleEnv(content) ==
    /\ frozen = FALSE
    /\ meipass = ""
    /\ exeDir = "A"
    /\ scriptDir = "A"
    /\ cwd = "A"
    /\ fs = [d \in Dirs |-> IF d = "A" THEN content ELSE NoFile]

\* The window with a few catalogs, every handler enabled.
GuiContents ==
    {NoFile, Unreadable, Malformed, NoDishes, DishesFile(ExampleDishes),
     DishesFile(PaddedDishes)}
GuiTexts == {<<>>, <<"a">>, <<" ", "a", "n">>}

Init == InitWindow /\ \E content \in GuiContents : SimpleEnv(content)

Next ==
    \/ LoadData
    \/ \E cancelled \in BOOLEAN, content \in GuiContents \ {NoFile} :
          OnLoad(cancelled, content)
    \/ \E text \in GuiTexts, completes \in BOOLEAN : OnEntryTextEdited(text, completes)
    \/ FocusOut
    \/ OnSearch
    \/ \E i \in 1..Len(popup.items) : OnPopupItemClicked(i)
    \/ \E text \in GuiTexts, ok \in BOOLEAN : MenuSearch(text, ok)

Spec == Init /\ [][Next]_vars

\* Catalogs: every list of dishes within the bounds, and the examples.
InitCatalog ==
    /\ InitWindow
    /\ \E content \in {NoFile} \cup {DishesFile(ds) :
                         ds \in DishLists \cup {ExampleDishes, PaddedDishes}} :
          SimpleEnv(content)

NextCatalog ==
    \/ LoadData
    \/ \E text \in SearchTexts, ok \in BOOLEAN : MenuSearch(text, ok)

SpecCatalog == InitCatalog /\ [][NextCatalog]_vars

\* The loader: every placement of the program and of the files.
InitLoad ==
    /\ InitWindow
    /\ frozen \in BOOLEAN
    /\ meipass \in (IF frozen THEN {"", "M"} ELSE {""})
    /\ exeDir \in {"A", "B"}
    /\ scriptDir \in {"A", "B", "M", "", "undefined"}
    /\ cwd \in {"A", "B"}
    /\ fs \in [Dirs -> {NoFile} \cup LoadContents]

NextLoad ==
    \/ LoadData
    \/ \E cancelled \in BOOLEAN, content \in LoadContents : OnLoad(cancelled, content)

SpecLoad == InitLoad /\ [][NextLoad]_vars

\* The suggestions: a vocabulary, then the user types.
InitSuggest ==
    /\ InitWindow
    /\ \E T \in (SUBSET TokenPool) \cup {BigTokens} :
          SimpleEnv(DishesFile(TokenDishes(T)))

NextSuggest ==
    \/ LoadData
    \/ \E text \in Queries, completes \in BOOLEAN : OnEntryTextEdited(text, completes)
    \/ FocusOut

SpecSuggest == InitSuggest /\ [][NextSuggest]_vars

-----------------------------------------------------------------------------
(* Terms of the properties. *)

Range(f) == {f[i] : i \in DOMAIN f}

\* The tokens of a delimiter-joined string: its maximal runs of word
\* characters.
TokensOf(s) ==
    {SubSeq(s, i, j) : <<i, j>> \in
        {ij \in (1..Len(s)) \X (1..Len(s)) :
            /\ ij[1] <= ij[2]
            /\ \A k \in ij[1]..ij[2] : IsWordChar(s[k])
            /\ (ij[1] = 1 \/ ~IsWordChar(s[ij[1] - 1]))
            /\ (ij[2] = Len(s) \/ ~IsWordChar(s[ij[2] + 1]))}}

\* A token with no surrounding whitespace and at least one character.
IsTrimmedToken(tok) ==
    tok # <<>> /\ ~IsSpace(tok[1]) /\ ~IsSpace(tok[Len(tok)])

\* The normalized tag set of a tags field: the tokens of a string, the
\* trimmed non-empty texts of the elements of a sequence, nothing for a
\* field that is absent or null.
NormalizedTags(cell) ==
    CASE cell.t = "str" -> TokensOf(cell.v)
      [] cell.t = "list" -> {Strip(Str(cell.v[i])) : i \in 1..Len(cell.v)} \ {<<>>}
      [] OTHER -> {}

\* A tags field that is absent or null.
IsNullTags(cell) == cell.t \in {"NoneType", "float", "absent"}

\* items are exactly the members of seq that are in S, in the order of seq
\* (seq has no duplicates).
IsSelection(items, seq, S) ==
    /\ Range(items) = Range(seq) \cap S
    /\ Len(items) = Cardinality(Range(seq) \cap S)
    /\ \A j, k \in 1..Len(items) :
          j < k => \E a, b \in 1..Len(seq) :
                      a < b /\ seq[a] = items[j] /\ seq[b] = items[k]

\* A search on the current catalog has returned or raised.
Searched == lastSearch.kind \in {"return", "raise"} /\ ~checkpoint.isNone

-----------------------------------------------------------------------------
(* Properties. *)

\* C1: search_by_tag(t, catalog) returns, in catalog order, exactly the
\* records whose normalized tag set has t as a member; a record whose tags
\* only contain t inside a longer tag is not returned.
C1_SearchIsExactMembership ==
    (Searched /\ lastSearch.kind = "return") =>
        IsSelection(lastSearch.df.rows, checkpoint.rows,
                    {r \in Range(checkpoint.rows) :
                        lastSearch.tag \in NormalizedTags(r.tags)})

\* C2: search_by_tag never ends in an error; on the empty catalog and on a
\* catalog where no record carries the tag it returns an empty result.
C2_SearchNeverRaises ==
    Searched =>
        /\ lastSearch.kind = "return"
        /\ (\A i \in 1..Len(checkpoint.rows) :
               ~HasTag(lastSearch.tag, checkpoint.rows[i].tags))
              => lastSearch.df.rows = <<>>

\* The locations the loader may take the file from, with their priority:
\* 1 the bundled resource directory, 2 the directory next to the running
\* program (the executable's, the script's), 3 the working directory.
Locations ==
    (IF frozen /\ meipass # "" THEN {[rank |-> 1, dir |-> meipass]} ELSE {})
    \cup (IF frozen THEN {[rank |-> 2, dir |-> exeDir]} ELSE {})
    \cup (IF scriptDir \in Dirs THEN {[rank |-> 2, dir |-> scriptDir]} ELSE {})
    \cup {[rank |-> 3, dir |-> cwd]}

\* load_dishes has run and is the last load.
Loaded == lastLoad.fn = "load_dishes"

\* C3: when dishes.txt exists in none of the candidate locations,
\* load_dishes returns an empty catalog and does not raise.
C3_NoFileGivesEmptyCatalog ==
    (Loaded /\ \A l \in Locations : fs[l.dir] = NoFile) =>
        /\ lastLoad.kind = "return"
        /\ Len(lastLoad.df.rows) = 0
        /\ checkpoint = lastLoad.df

\* C3 witness: load_dishes has run with the file in no candidate location,
\* while a directory that is no candidate holds one.
C3_Witness ==
    /\ Loaded
    /\ \A l \in Locations : fs[l.dir] = NoFile
    /\ \E d \in Dirs : fs[d] # NoFile
    /\ frozen
    /\ lastLoad.kind = "return"

\* C4: when the file exists but its content cannot be parsed into records
\* (also when it declares no dishes), load fails with an error for that
\* path that carries the cause, and returns no catalog, empty or partial.
\* Whatever exception the load raises is taken for the LoadError.
C4_UnparsableIsLoadError ==
    (Loaded /\ lastLoad.path \in Dirs
        /\ fs[lastLoad.path].kind \in {"malformed", "nodishes"}) =>
        /\ lastLoad.kind = "raise"
        /\ lastLoad.error # ""
        /\ checkpoint.isNone

\* C5: the loader uses the first location, in the priority order, where the
\* file exists; a lower-priority one only when no higher-priority one has it.
C5_FirstExistingLocation ==
    (Loaded /\ \E l \in Locations : fs[l.dir] # NoFile) =>
        \E l \in Locations :
            /\ lastLoad.path = l.dir
            /\ fs[l.dir] # NoFile
            /\ \A h \in Locations : h.rank < l.rank => fs[h.dir] = NoFile

\* C5 witness: the bundled directory has no file, the executable's and the
\* working directory have one, and the executable's is used.
C5_Witness ==
    /\ Loaded
    /\ frozen /\ meipass = "M" /\ fs["M"] = NoFile
    /\ cwd # exeDir /\ scriptDir = "undefined"
    /\ fs[exeDir] # NoFile /\ fs[cwd] # NoFile
    /\ lastLoad.path = exeDir

\* C6: every token of the tag vocabulary is non-empty and has no leading or
\* trailing whitespace, for string-valued and for sequence-valued tags.
C6_VocabularyTokensTrimmed ==
    \A i \in 1..Len(tagList) : IsTrimmedToken(tagList[i])

\* C7: the vocabulary is the union over all records of their normalized
\* tags, as a strictly ascending sequence.
C7_VocabularyIsSortedUnion ==
    pc = "idle" =>
        /\ Range(tagList) =
              UNION {NormalizedTags(r.tags) : r \in Range(checkpoint.rows)}
        /\ \A j, k \in 1..Len(tagList) : j < k => StrLess(tagList[j], tagList[k])

\* C8: a record whose tags field is absent or null gives the vocabulary no
\* token and is returned by no search, and it stays in the catalog.
C8_NullTagsContributeNothing ==
    pc = "idle" =>
        /\ Range(tagList) =
              UNION {Range(TagListOf([checkpoint EXCEPT !.rows = <<r>>])) :
                        r \in {x \in Range(checkpoint.rows) : ~IsNullTags(x.tags)}}
        /\ (Searched /\ lastSearch.kind = "return") =>
              \A r \in Range(lastSearch.df.rows) : ~IsNullTags(r.tags)
        /\ (lastLoad.fn = "load_dishes" /\ lastLoad.path \in Dirs
              /\ fs[lastLoad.path].kind = "dishes")
              => Len(checkpoint.rows) = Len(fs[lastLoad.path].dishes)

\* The entries of the vocabulary that contain q, compared case-insensitively.
EntriesContaining(q) ==
    {t \in Range(tagList) : Contains(Lower(q), Lower(t))}

C10_SuggestionsCapped ==
    popup.filled =>
        /\ Len(popup.items) <= MaxVisibleItems
        /\ popup.query = <<>> =>
              popup.items =
                 SubSeq(tagList, 1,
                        IF Len(tagList) < MaxVisibleItems THEN Len(tagList)
                        ELSE MaxVisibleItems)

\* A step in which search_by_tag was called: it left a new outcome or new
\* rows in the table.
SearchStep == lastSearch' # lastSearch \/ modelDf' # modelDf

\* C11: search_by_tag has no hidden state: a search leaves the catalog, the
\* tag list and the files as they were, and a second call with the same tag
\* and the same catalog (None included: the function loads it itself) gives
\* the outcome the first one gave.
C11_SearchHasNoHiddenState ==
    [][SearchStep =>
          /\ checkpoint' = checkpoint
          /\ tagList' = tagList
          /\ fs' = fs
          /\ lastSearch'.kind \in {"return", "raise"} =>
                /\ lastSearch' =
                      SearchOutcome(lastSearch'.tag,
                                    SearchByTag(lastSearch'.tag, checkpoint))
                /\ lastSearch' =
                      SearchOutcome(lastSearch'.tag,
                                    SearchByTag(lastSearch'.tag, checkpoint'))]_vars

\* C11 witness: a search has returned some rows of the catalog and not all.
C11_Witness ==
    /\ lastSearch.kind = "return"
    /\ ~checkpoint.isNone
    /\ Len(lastSearch.df.rows) >= 1
    /\ Len(lastSearch.df.rows) < Len(checkpoint.rows)
    /\ modelDf = lastSearch.df

\* C12: after any sequence of startup load, reloads (successful, failed or
\* cancelled) and searches, _tag_list is the vocabulary computed from the
\* current catalog.
C12_TagListFollowsCatalog == tagList = TagListOf(checkpoint)

\* C12 witness: a reload has replaced the startup catalog by one with another
\* vocabulary, and a search has run since the window started.
C12_Witness ==
    /\ fs["A"].kind = "dishes"
    /\ lastLoad.fn = "on_load" /\ lastLoad.kind = "return"
    /\ checkpoint = lastLoad.df
    /\ tagList # <<>>
    /\ tagList # TagListOf(PdDataFrame(fs["A"].dishes))
    /\ lastSearch.kind = "return"

\* The catalogs a load of one of the files gives when it loads it whole.
CompleteCatalogs == {PdDataFrame(c.dishes) : c \in GuiContents}

\* C13: a reload replaces the catalog as a whole: whenever the catalog
\* changes, the new one is the complete catalog of the file just loaded; a
\* step whose load was cancelled or failed leaves the catalog as it was.
C13_ReloadReplacesWhole ==
    [][/\ lastLoad'.kind # "return" => checkpoint' = checkpoint
       /\ checkpoint' # checkpoint =>
             /\ lastLoad' # lastLoad
             /\ checkpoint' = lastLoad'.df
             /\ checkpoint' \in CompleteCatalogs]_vars

\* C13 witness: a reload has replaced the startup catalog by another
\* non-empty one, and a later reload has failed and left it in place.
C13_Witness ==
    /\ fs["A"].kind = "dishes"
    /\ lastLoad.fn = "on_load" /\ lastLoad.kind = "raise"
    /\ ~checkpoint.isNone
    /\ Len(checkpoint.rows) >= 1
    /\ checkpoint # PdDataFrame(fs["A"].dishes)
    /\ checkpoint \in CompleteCatalogs

\* C14: every suggestion is searchable: for every token of the vocabulary
\* built from the current catalog, search_by_tag on that catalog returns at
\* least one record.
C14_SuggestionsSearchable ==
    (pc = "idle" /\ ~checkpoint.isNone) =>
        \A i \in 1..Len(tagList) :
            LET out == SearchByTag(tagList[i], checkpoint)
            IN /\ out.kind = "return"
               /\ Len(out.df.rows) >= 1

====
